---- MODULE Spec2Model ----
(***************************************************************************)
(* Model of jwks.CachingProvider (src/jwks/provider.go): a TTL cache of    *)
(* JSON Web Key Sets keyed by the issuer's hostname, refreshed either in   *)
(* the background (default) or synchronously.                              *)
(*                                                                         *)
(* Tasks are the goroutines of the program: the callers of                 *)
(* CachingProvider.KeyFunc and the goroutines KeyFunc spawns for a         *)
(* background refresh.  Every task has a program counter naming the next   *)
(* statement of provider.go it executes.                                   *)
(*                                                                         *)
(* sync.RWMutex is modelled by its documented behaviour: writers exclude   *)
(* each other, a writer that has called Lock keeps new readers out, and    *)
(* it owns the lock once the readers that were inside have left.           *)
(* semaphore.Weighted is a counter of the permits taken.                   *)
(***************************************************************************)
EXTENDS Naturals, Integers, FiniteSets, Sequences, TLC

(* ---------------------------------------------------------------- bounds *)
NumCallers == 2
MaxGoroutines == 2
MaxTime == 2
MaxFetch == 2

(* ------------------------------------------------------ program constants *)
\* cacheTTL = 1 * time.Minute, in seconds (provider.go:127)
DefaultCacheTTL == 60
\* semaphore.NewWeighted(1) (provider.go:147)
SemSize == 1

Callers == {<<"caller", i>> : i \in 1..NumCallers}
Goroutines == {<<"go", i>> : i \in 1..MaxGoroutines}
Tasks == Callers \cup Goroutines
NoTask == <<"none", 0>>

\* *jose.JSONWebKeySet values are numbered in the order the fetcher produced them
NoJwks == 0
NilErr == "nil"
FetchErr == "fetch failed"
\* ctx.Err() of a cancelled context, as the HTTP client returns it
CtxErr == "context canceled"

\* Provider.IssuerURL and (*url.URL).Hostname()
IssuerURL == [Scheme |-> "https", Host |-> "idp.example.com", Port |-> "443"]
Hostname(u) == u.Host

\* The arguments NewCachingProvider is called with: cacheTTL (seconds) and the
\* value given to WithSynchronousRefresh ("none" when the option is not passed).
TTLArgs == {0, 1}
SyncOpts == {"none", "true", "false"}

VARIABLES
  CacheTTL,            \* CachingProvider.CacheTTL
  synchronousRefresh,  \* CachingProvider.synchronousRefresh
  cache,               \* CachingProvider.cache : issuer -> cachedJWKS
  sem,                 \* CachingProvider.sem : permits taken
  mu,                  \* CachingProvider.mu : [w, readers]
  now,                 \* time.Now()
  fetched,             \* number of key sets the issuer has served so far
  task,                \* per task: program counter and locals
  ctor,                \* the call of NewCachingProvider: its arguments and progress
  lastStore            \* history: when line 215 last ran and the expiry it wrote

vars ==
  <<CacheTTL, synchronousRefresh, cache, sem, mu, now, fetched, task, ctor, lastStore>>

(* ------------------------------------------------------------ construction *)
EmptyCache == [i \in {} |-> 0]

\* No entry has been stored yet.
NeverStored == [at |-> 0, expiresAt |-> 0]

\* A task that is not running: a caller between two calls, a goroutine not spawned.
IdleTask ==
  [pc |-> "idle", path |-> "none", obs |-> "none", start |-> "none",
   cached |-> [jwks |-> NoJwks, expiresAt |-> 0],
   rk |-> [jwks |-> NoJwks, err |-> NilErr],
   res |-> [jwks |-> NoJwks, err |-> NilErr],
   ctx |-> NoTask, nfetch |-> 0, sawCancel |-> FALSE]

\* Faulty variant of NewCachingProvider: a zero cacheTTL is kept as it is.
NewCachingProvider_NoDefault(cacheTTL, syncOpt) ==
  [CacheTTL |-> cacheTTL,
   cache |-> EmptyCache,
   sem |-> 0,
   synchronousRefresh |-> (syncOpt = "true")]

NewCachingProvider(cacheTTL, syncOpt) ==
  [CacheTTL |-> IF cacheTTL = 0 THEN DefaultCacheTTL ELSE cacheTTL,
   cache |-> EmptyCache,
   sem |-> 0,
   synchronousRefresh |-> (syncOpt = "true")]

Init ==
  \E ttl \in TTLArgs, opt \in SyncOpts :
    LET cp == NewCachingProvider(ttl, opt) IN
      /\ CacheTTL = cp.CacheTTL
      /\ synchronousRefresh = cp.synchronousRefresh
      /\ cache = cp.cache
      /\ sem = cp.sem
      /\ mu = [w |-> NoTask, readers |-> {}]
      /\ now = 0
      /\ fetched = 0
      /\ task = [t \in Tasks |-> IdleTask]
      /\ ctor = [phase |-> "given", cacheTTL |-> 0, opt |-> "none"]
      /\ lastStore = NeverStored

\* The state before NewCachingProvider is called: the arguments are chosen and
\* the fields of the provider hold the zero values of their types.
CtorInit ==
  /\ ctor \in [phase : {"new"}, cacheTTL : TTLArgs, opt : SyncOpts]
  /\ CacheTTL = 0
  /\ synchronousRefresh = FALSE
  /\ cache = EmptyCache
  /\ sem = 0
  /\ mu = [w |-> NoTask, readers |-> {}]
  /\ now = 0
  /\ fetched = 0
  /\ task = [t \in Tasks |-> IdleTask]
  /\ lastStore = NeverStored

\* lines 125-156: the call of NewCachingProvider with the chosen arguments
Construct ==
  /\ ctor.phase = "new"
  /\ LET cp == NewCachingProvider(ctor.cacheTTL, ctor.opt) IN
       /\ CacheTTL' = cp.CacheTTL
       /\ synchronousRefresh' = cp.synchronousRefresh
       /\ cache' = cp.cache
       /\ sem' = cp.sem
  /\ ctor' = [ctor EXCEPT !.phase = "built"]
  /\ UNCHANGED <<mu, now, fetched, task, lastStore>>

(* ------------------------------------------------------------ primitives *)
\* Faulty variant of After: receiver and argument exchanged (u.After(t)).
After_Exchanged(t, u) == u > t

\* time.Time.After: strictly later
After(t, u) == t > u

\* Faulty variant of TryAcquire: the permit is granted whether or not one is free.
TryAcquire_Always == TRUE

\* Faulty variant of TryAcquire: the semaphore has two permits.
TryAcquire_TwoPermits == 2 - sem >= 1

\* semaphore.Weighted.TryAcquire(1): succeeds when a permit is free
TryAcquire == SemSize - sem >= 1

\* sync.RWMutex: RLock succeeds when no writer holds or waits for the lock
CanRLock == mu.w = NoTask
\* sync.RWMutex: Lock first excludes the other writers and new readers ...
CanLock == mu.w = NoTask
\* ... and returns once the readers inside have left
LockGranted(t) == mu.w = t /\ mu.readers = {}

Has(issuer) == issuer \in DOMAIN cache
Store(issuer, e) ==
  [i \in DOMAIN cache \cup {issuer} |-> IF i = issuer THEN e ELSE cache[i]]
Delete(issuer) == [i \in DOMAIN cache \ {issuer} |-> cache[i]]

\* What a call finds the cache in when it starts: an entry ("cached"), none
\* because none was ever stored ("cold"), none after one was stored ("evicted").
CacheState(issuer) ==
  IF Has(issuer) THEN "cached"
  ELSE IF lastStore = NeverStored THEN "cold" ELSE "evicted"

SetTask(t, r) == task' = [task EXCEPT ![t] = r]

(* ------------------------------------------------------------------ clock *)
Tick ==
  /\ now < MaxTime
  /\ now' = now + 1
  /\ UNCHANGED <<lastStore, ctor, CacheTTL, synchronousRefresh, cache, sem, mu, fetched, task>>

(* ------------------------------------------- CachingProvider.KeyFunc *)
\* A caller enters KeyFunc(ctx) with the context of a new request; its first
\* statement is c.mu.RLock().
KeyFuncCall(c) ==
  /\ ctor.phase # "new"
  /\ task[c].pc = "idle"
  /\ SetTask(c, [IdleTask EXCEPT !.pc = "RLock",
                                 !.start = CacheState(Hostname(IssuerURL))])
  /\ UNCHANGED <<lastStore, ctor, CacheTTL, synchronousRefresh, cache, sem, mu, now, fetched>>

\* line 162
KeyFuncRLock(c) ==
  /\ task[c].pc = "RLock"
  /\ CanRLock
  /\ mu' = [mu EXCEPT !.readers = @ \cup {c}]
  /\ SetTask(c, [task[c] EXCEPT !.pc = "Lookup"])
  /\ UNCHANGED <<lastStore, ctor, CacheTTL, synchronousRefresh, cache, sem, now, fetched>>

\* context.Background() (line 171)
BackgroundCtx == <<"background", 0>>
\* the ctx argument of KeyFunc, one per caller
CallerCtx(c) == c

\* Faulty variant of RefreshCtx: the goroutine fetches on the caller's ctx.
RefreshCtx_Caller(c) == CallerCtx(c)

\* lines 171-173: refreshCtx, derived from context.Background() with a 15 s
\* timeout by the goroutine that the call of c has spawned
RefreshCtx(c) == <<"background", c[2]>>

\* The contexts that can be cancelled from outside: those of the callers'
\* requests (the client went away, the handler returned). The expiry of the 15 s
\* timeout of a refreshCtx is one of the ways a fetch fails.
CallerCtxs == {CallerCtx(c) : c \in Callers}

\* The caller whose request a fetch serves: the caller that runs it, or the one
\* whose call has spawned the goroutine that runs it.
Requester(t) == IF t \in Callers THEN t ELSE <<"caller", task[t].ctx[2]>>

\* Faulty variant of RefreshInBackground: the test of line 168 inverted.
RefreshInBackground_Inverted == synchronousRefresh

\* line 168: if !c.synchronousRefresh
RefreshInBackground == ~synchronousRefresh

\* The goroutine of lines 169-180 as it is spawned: it starts at refreshKey.
SpawnedTask ==
  [IdleTask EXCEPT !.pc = "rk_Lock", !.path = "bg", !.ctx = BackgroundCtx]

\* `go func() { ... }()` (line 169) runs in a goroutine that does not exist yet:
\* the unused one of least index, NoTask when MaxGoroutines of them are running.
NewGoroutine ==
  LET free == {g \in Goroutines : task[g].pc = "idle"} IN
    IF free = {} THEN NoTask
    ELSE CHOOSE g \in free : \A h \in free : g[2] <= h[2]

\* lines 164-168, 183: the lookup, the expiry test, TryAcquire and the spawn;
\* the spawned task remembers the entry it is to refresh
KeyFuncLookup(c) ==
  /\ task[c].pc = "Lookup"
  /\ LET issuer == Hostname(IssuerURL) IN
     IF Has(issuer)
     THEN LET cached == cache[issuer] IN
          IF After(now, cached.expiresAt) /\ TryAcquire
          THEN /\ sem' = sem + 1
               /\ IF RefreshInBackground
                  THEN \E g \in Goroutines :
                         /\ g = NewGoroutine
                         /\ task' = [task EXCEPT
                              ![c] = [@ EXCEPT !.pc = "RUnlock", !.path = "async",
                                               !.obs = "expired", !.cached = cached],
                              ![g] = [SpawnedTask EXCEPT !.ctx = RefreshCtx(c),
                                                         !.cached = cached]]
                  ELSE SetTask(c, [task[c] EXCEPT !.pc = "RUnlock", !.path = "sync",
                                                  !.obs = "expired", !.cached = cached])
          ELSE /\ sem' = sem
               /\ SetTask(c, [task[c] EXCEPT
                     !.pc = "RUnlock", !.path = "hit",
                     !.obs = IF After(now, cached.expiresAt) THEN "expired" ELSE "valid",
                     !.cached = cached])
     ELSE /\ sem' = sem
          /\ SetTask(c, [task[c] EXCEPT !.pc = "RUnlock", !.path = "miss", !.obs = "miss"])
  /\ UNCHANGED <<lastStore, ctor, CacheTTL, synchronousRefresh, cache, mu, now, fetched>>

\* lines 181-182, 184, 189-190, 193: RUnlock, then return the cached key set or
\* go on to refreshKey
KeyFuncRUnlock(c) ==
  /\ task[c].pc = "RUnlock"
  /\ mu' = [mu EXCEPT !.readers = @ \ {c}]
  /\ IF task[c].path \in {"async", "hit"}
     THEN SetTask(c, [task[c] EXCEPT !.pc = "idle",
                         !.res = [jwks |-> task[c].cached.jwks, err |-> NilErr]])
     ELSE SetTask(c, [task[c] EXCEPT !.pc = "rk_Lock", !.ctx = CallerCtx(c)])
  /\ UNCHANGED <<lastStore, ctor, CacheTTL, synchronousRefresh, cache, sem, now, fetched>>

(* --------------------------------------- CachingProvider.refreshKey *)
\* Faulty variant of refreshKeyLock: refreshKey goes to the fetch without c.mu.Lock().
refreshKeyLock_Unlocked(t) ==
  /\ task[t].pc = "rk_Lock"
  /\ SetTask(t, [task[t] EXCEPT !.pc = "rk_Fetching", !.nfetch = @ + 1])
  /\ UNCHANGED <<lastStore, ctor, CacheTTL, synchronousRefresh, cache, sem, mu, now, fetched>>

\* Faulty variant of refreshKeyLock: refreshKey takes the read lock, c.mu.RLock().
refreshKeyLock_ReadLock(t) ==
  /\ task[t].pc = "rk_Lock"
  /\ CanRLock
  /\ mu' = [mu EXCEPT !.readers = @ \cup {t}]
  /\ SetTask(t, [task[t] EXCEPT !.pc = "rk_Fetching", !.nfetch = @ + 1])
  /\ UNCHANGED <<lastStore, ctor, CacheTTL, synchronousRefresh, cache, sem, now, fetched>>

\* line 207, first half: Lock announces the writer
refreshKeyLock(t) ==
  /\ task[t].pc = "rk_Lock"
  /\ CanLock
  /\ mu' = [mu EXCEPT !.w = t]
  /\ SetTask(t, [task[t] EXCEPT !.pc = "rk_LockWait"])
  /\ UNCHANGED <<lastStore, ctor, CacheTTL, synchronousRefresh, cache, sem, now, fetched>>

\* lines 207-210: Lock returns and c.Provider.KeyFunc(ctx) is called
refreshKeyFetch(t) ==
  /\ task[t].pc = "rk_LockWait"
  /\ LockGranted(t)
  /\ SetTask(t, [task[t] EXCEPT !.pc = "rk_Fetching", !.nfetch = @ + 1])
  /\ UNCHANGED <<lastStore, ctor, CacheTTL, synchronousRefresh, cache, sem, mu, now, fetched>>

\* Faulty variant of ProviderKeyFunc: a failed fetch returns the half-decoded
\* key set along with its error.
ProviderKeyFunc_Both(ctx, done, ok) ==
  IF ctx \in done THEN [jwks |-> NoJwks, err |-> CtxErr]
  ELSE IF ok THEN [jwks |-> fetched + 1, err |-> NilErr]
  ELSE [jwks |-> fetched + 1, err |-> FetchErr]

\* Provider.KeyFunc (lines 64-95): a key set the issuer serves, or an error;
\* the requests are bound to ctx (lines 67, 78), so they are aborted when ctx is
\* one of the contexts cancelled (done) before the response is read
ProviderKeyFunc(ctx, done, ok) ==
  IF ctx \in done THEN [jwks |-> NoJwks, err |-> CtxErr]
  ELSE IF ok THEN [jwks |-> fetched + 1, err |-> NilErr]
  ELSE [jwks |-> NoJwks, err |-> FetchErr]

\* Faulty variant of NewEntry: the entry expires at the time it is stored.
NewEntry_NoTTL(jwks) == [jwks |-> jwks, expiresAt |-> now]

\* Faulty variant of NewEntry: the expiry is the TTL added to the zero time.
NewEntry_TTLOnly(jwks) == [jwks |-> jwks, expiresAt |-> CacheTTL]

\* lines 215-218: cachedJWKS{jwks, expiresAt: time.Now().Add(c.CacheTTL)}
NewEntry(jwks) == [jwks |-> jwks, expiresAt |-> now + CacheTTL]

\* Faulty variant of CacheAfterFetch: refreshKey drops the entry when the fetch fails.
CacheAfterFetch_EvictOnError(issuer, r) ==
  IF r.err # NilErr THEN Delete(issuer) ELSE Store(issuer, NewEntry(r.jwks))

\* Faulty variant of CacheAfterFetch: the entry is written whatever the fetch
\* returned.
CacheAfterFetch_StoreAlways(issuer, r) == Store(issuer, NewEntry(r.jwks))

\* lines 211-218: an error leaves the map alone, a key set is stored
CacheAfterFetch(issuer, r) ==
  IF r.err # NilErr THEN cache ELSE Store(issuer, NewEntry(r.jwks))

\* The sets of caller contexts found cancelled when the fetch of t returns: none,
\* that of the caller whose request the fetch serves, every caller's.
CancelledCtxs(t) == {{}, {CallerCtx(Requester(t))}, CallerCtxs}

\* line 210: c.Provider.KeyFunc(ctx) returns, some callers having cancelled the
\* context of their request in the meantime
refreshKeyReturn(t) ==
  /\ task[t].pc = "rk_Fetching"
  /\ \E done \in CancelledCtxs(t), ok \in BOOLEAN :
       LET r == ProviderKeyFunc(task[t].ctx, done, ok) IN
         /\ r.err = NilErr => fetched < MaxFetch
         /\ fetched' = IF r.err = NilErr THEN fetched + 1 ELSE fetched
         /\ SetTask(t, [task[t] EXCEPT !.pc = "rk_Store", !.rk = r,
                          !.sawCancel = CallerCtx(Requester(t)) \in done])
  /\ UNCHANGED <<lastStore, ctor, CacheTTL, synchronousRefresh, cache, sem, mu, now>>

\* lines 211-218: the error test and, when the fetch succeeded, the store
refreshKeyStore(t) ==
  /\ task[t].pc = "rk_Store"
  /\ cache' = CacheAfterFetch(Hostname(IssuerURL), task[t].rk)
  /\ lastStore' = IF task[t].rk.err = NilErr
                   THEN [at |-> now,
                         expiresAt |-> cache'[Hostname(IssuerURL)].expiresAt]
                   ELSE lastStore
  /\ SetTask(t, [task[t] EXCEPT !.pc = "rk_Unlock", !.sawCancel = FALSE])
  /\ UNCHANGED <<ctor, CacheTTL, synchronousRefresh, sem, mu, now, fetched>>

\* Faulty variant of refreshKeyUnlock: refreshKey returns with c.mu still locked.
refreshKeyUnlock_Held(t) ==
  /\ task[t].pc = "rk_Unlock"
  /\ SetTask(t,
       CASE task[t].path = "miss" -> [task[t] EXCEPT !.pc = "idle", !.res = task[t].rk]
         [] task[t].path = "sync" -> [task[t] EXCEPT !.pc = "Release"]
         [] OTHER -> [task[t] EXCEPT !.pc =
                        IF task[t].rk.err # NilErr THEN "ev_Lock" ELSE "bg_Release"])
  /\ UNCHANGED <<lastStore, ctor, CacheTTL, synchronousRefresh, cache, sem, mu, now, fetched>>

\* line 208 (deferred Unlock) and the return to the caller of refreshKey:
\* line 194 returns the result, line 186 still has Release to run, line 175
\* tests err
refreshKeyUnlock(t) ==
  /\ task[t].pc = "rk_Unlock"
  /\ mu' = [mu EXCEPT !.w = NoTask]
  /\ SetTask(t,
       CASE task[t].path = "miss" -> [task[t] EXCEPT !.pc = "idle", !.res = task[t].rk]
         [] task[t].path = "sync" -> [task[t] EXCEPT !.pc = "Release"]
         [] OTHER -> [task[t] EXCEPT !.pc =
                        IF task[t].rk.err # NilErr THEN "ev_Lock" ELSE "bg_Release"])
  /\ UNCHANGED <<lastStore, ctor, CacheTTL, synchronousRefresh, cache, sem, now, fetched>>

\* line 185 (deferred c.sem.Release(1)) and the return of line 186
KeyFuncRelease(c) ==
  /\ task[c].pc = "Release"
  /\ sem' = sem - 1
  /\ SetTask(c, [task[c] EXCEPT !.pc = "idle", !.res = task[c].rk])
  /\ UNCHANGED <<lastStore, ctor, CacheTTL, synchronousRefresh, cache, mu, now, fetched>>

(* ------------------------------- the background goroutine, lines 169-180 *)
\* line 176, first half
evictLock(g) ==
  /\ task[g].pc = "ev_Lock"
  /\ CanLock
  /\ mu' = [mu EXCEPT !.w = g]
  /\ SetTask(g, [task[g] EXCEPT !.pc = "ev_LockWait"])
  /\ UNCHANGED <<lastStore, ctor, CacheTTL, synchronousRefresh, cache, sem, now, fetched>>

\* Faulty variant of evictDelete: the goroutine takes the lock and deletes nothing.
evictDelete_Keep(g) ==
  /\ task[g].pc = "ev_LockWait"
  /\ LockGranted(g)
  /\ SetTask(g, [task[g] EXCEPT !.pc = "ev_Unlock"])
  /\ UNCHANGED <<lastStore, ctor, CacheTTL, synchronousRefresh, cache, sem, mu, now, fetched>>

\* lines 176-177: Lock returns, delete(c.cache, issuer)
evictDelete(g) ==
  /\ task[g].pc = "ev_LockWait"
  /\ LockGranted(g)
  /\ cache' = Delete(Hostname(IssuerURL))
  /\ SetTask(g, [task[g] EXCEPT !.pc = "ev_Unlock"])
  /\ UNCHANGED <<lastStore, ctor, CacheTTL, synchronousRefresh, sem, mu, now, fetched>>

\* line 178
evictUnlock(g) ==
  /\ task[g].pc = "ev_Unlock"
  /\ mu' = [mu EXCEPT !.w = NoTask]
  /\ SetTask(g, [task[g] EXCEPT !.pc = "bg_Release"])
  /\ UNCHANGED <<lastStore, ctor, CacheTTL, synchronousRefresh, cache, sem, now, fetched>>

\* Faulty variant of goRelease: the goroutine ends without c.sem.Release(1).
goRelease_Leak(g) ==
  /\ task[g].pc = "bg_Release"
  /\ SetTask(g, IdleTask)
  /\ UNCHANGED <<lastStore, ctor, CacheTTL, synchronousRefresh, cache, sem, mu, now, fetched>>

\* lines 170-172: the deferred cancel and c.sem.Release(1); the goroutine ends
goRelease(g) ==
  /\ task[g].pc = "bg_Release"
  /\ sem' = sem - 1
  /\ SetTask(g, IdleTask)
  /\ UNCHANGED <<lastStore, ctor, CacheTTL, synchronousRefresh, cache, mu, now, fetched>>

(* ---------------------------------------------------------- specification *)
Next ==
  \/ Tick
  \/ \E c \in Callers : KeyFuncCall(c)
  \/ \E c \in Callers : KeyFuncRLock(c)
  \/ \E c \in Callers : KeyFuncLookup(c)
  \/ \E c \in Callers : KeyFuncRUnlock(c)
  \/ \E t \in Tasks : refreshKeyLock(t)
  \/ \E t \in Tasks : refreshKeyFetch(t)
  \/ \E t \in Tasks : refreshKeyReturn(t)
  \/ \E t \in Tasks : refreshKeyStore(t)
  \/ \E t \in Tasks : refreshKeyUnlock(t)
  \/ \E c \in Callers : KeyFuncRelease(c)
  \/ \E g \in Goroutines : evictLock(g)
  \/ \E g \in Goroutines : evictDelete(g)
  \/ \E g \in Goroutines : evictUnlock(g)
  \/ \E g \in Goroutines : goRelease(g)

Spec == Init /\ [][Next]_vars

\* Scheduling: a goroutine that can run does run, a fetch returns (the caller's
\* context or the 15 s background timeout bounds it), and a goroutine waiting
\* for the mutex gets it (sync.Mutex and sync.RWMutex are starvation free).
\* Nothing obliges a caller to call KeyFunc, nor the clock to advance.
Fairness ==
  /\ \A c \in Callers :
        /\ SF_vars(KeyFuncRLock(c))
        /\ WF_vars(KeyFuncLookup(c))
        /\ WF_vars(KeyFuncRUnlock(c))
        /\ WF_vars(KeyFuncRelease(c))
  /\ \A t \in Tasks :
        /\ SF_vars(refreshKeyLock(t))
        /\ WF_vars(refreshKeyFetch(t))
        /\ WF_vars(refreshKeyReturn(t))
        /\ WF_vars(refreshKeyStore(t))
        /\ WF_vars(refreshKeyUnlock(t))
  /\ \A g \in Goroutines :
        /\ SF_vars(evictLock(g))
        /\ WF_vars(evictDelete(g))
        /\ WF_vars(evictUnlock(g))
        /\ WF_vars(goRelease(g))

FairSpec == Spec /\ Fairness

\* The program from the call of NewCachingProvider on.
CtorNext == Construct \/ Next
CtorSpec == CtorInit /\ [][CtorNext]_vars

(* ------------------------------------------------- vocabulary of the claims *)
Issuer == Hostname(IssuerURL)
Running(t) == task[t].pc # "idle"
\* The call of caller c has returned (and c has not called again).
Returned(c) == task[c].pc = "idle" /\ task[c].path # "none"
\* t holds the permit of c.sem: a background goroutine from its spawn to its
\* Release, a synchronous refresher from TryAcquire to its deferred Release.
HoldsGate(t) == Running(t) /\ task[t].path \in {"bg", "sync"}
Fetching == {t \in Tasks : task[t].pc = "rk_Fetching"}
StartsFetch(t) == task[t].pc # "rk_Fetching" /\ task'[t].pc = "rk_Fetching"
Expired == Has(Issuer) /\ After(now, cache[Issuer].expiresAt)

(* ----------------------------------------------------------------- C1 *)
\* C1 (as claimed): while a background refresh holds the RefreshGate, no task
\* other than that refresh starts a fetch.
C1_NoOtherFetchInWindow ==
  [][\A g \in Goroutines, t \in Tasks :
       (HoldsGate(g) /\ StartsFetch(t)) => t = g]_vars

\* C1 (amended): while a background refresh holds the RefreshGate, the only
\* fetches started are that refresh's own single fetch and the fetches of get
\* calls that found no entry (cold misses, which do not take the gate); a get
\* call that finds an entry never starts a fetch during the window.
C1_CoalescedRefresh ==
  [][\A g \in Goroutines, t \in Tasks :
       (HoldsGate(g) /\ StartsFetch(t)) =>
          /\ t = g \/ (t \in Callers /\ task[t].obs = "miss")
          /\ task'[t].nfetch = 1]_vars

\* C1 witness: a get call found the entry expired during another call's refresh
\* window and returned without fetching, while the background fetch is in flight.
C1_Witness ==
  \E g \in Goroutines, c \in Callers :
    /\ task[g].pc = "rk_Fetching"
    /\ Returned(c) /\ task[c].obs = "expired" /\ task[c].path = "hit"
    /\ task[c].nfetch = 0

(* ----------------------------------------------------------------- C2 *)
\* C2: in asynchronous mode a get call on an expired entry returns the stale key
\* set with no error, and while the entry is expired and the fetch of a background
\* refresh is in flight a call that has entered KeyFunc is not held up at
\* c.mu.RLock().
C2_StaleWithoutWaiting ==
  \A c \in Callers :
    /\ (~synchronousRefresh /\ Returned(c) /\ task[c].obs = "expired") =>
          task[c].res = [jwks |-> task[c].cached.jwks, err |-> NilErr]
    /\ (~synchronousRefresh /\ task[c].pc = "RLock" /\ Expired
          /\ \E g \in Goroutines : task[g].pc = "rk_Fetching") =>
          CanRLock

(* ----------------------------------------------------------------- C3 *)
\* C3: in synchronous mode a get call that found the entry expired returns, after
\* one fetch of its own, the newly fetched key set or the fetch error, never the
\* stale key set.
C3_SyncNeverStale ==
  \A c \in Callers :
    (synchronousRefresh /\ Returned(c) /\ task[c].obs = "expired") =>
       /\ task[c].nfetch = 1
       /\ task[c].res = task[c].rk
       /\ task[c].res.err = NilErr => task[c].res.jwks # task[c].cached.jwks

(* ----------------------------------------------------------------- C4 *)
\* C4: at most one Key Fetcher invocation is in flight at any time.
C4_OneFetchInFlight == Cardinality(Fetching) <= 1

\* C4 witness: a fetch is in flight while another task is inside refreshKey,
\* waiting for the write lock.
C4_Witness ==
  \E t \in Tasks, u \in Tasks :
    t # u /\ task[t].pc = "rk_Fetching" /\ task[u].pc = "rk_Lock"

(* ----------------------------------------------------------------- C5 *)
\* The background refresh of g has failed and its entry is still to be removed.
FailedRefresh(g) ==
  task[g].path = "bg" /\ task[g].pc = "rk_Unlock" /\ task[g].rk.err # NilErr
\* Caller c reads the cache in this step (lines 164-166).
LooksUp(c) == task[c].pc = "Lookup" /\ task'[c].pc = "RUnlock"

\* C5 (as claimed, its second half): in asynchronous mode a get call that starts
\* while the entry is removed and not yet stored again performs a fresh fetch.
C5_CallAfterRemovalFetches ==
  \A c \in Callers :
    (~synchronousRefresh /\ Returned(c) /\ task[c].start = "evicted") =>
       task[c].nfetch = 1 /\ task[c].res = task[c].rk

\* C5 (amended): in asynchronous mode a failed background refresh is eventually
\* followed by the removal of the issuer's entry, and every get call that looks
\* the issuer up after the removal and before a later store takes the miss path:
\* it performs one fresh fetch and returns that fetch's result.
C5_EvictThenRefetch ==
  /\ \A g \in Goroutines : FailedRefresh(g) ~> ~Has(Issuer)
  /\ [][\A c \in Callers :
          (~synchronousRefresh /\ LooksUp(c) /\ CacheState(Issuer) = "evicted") =>
             task'[c].path = "miss" /\ task'[c].obs = "miss"]_vars
  /\ [](\A c \in Callers :
          (~synchronousRefresh /\ Returned(c) /\ task[c].obs = "miss") =>
             task[c].nfetch = 1 /\ task[c].res = task[c].rk)

\* C5 witness: a call that started after the eviction has fetched afresh.
C5_Witness ==
  \E c \in Callers :
    /\ ~synchronousRefresh /\ Returned(c) /\ task[c].start = "evicted"
    /\ task[c].obs = "miss" /\ task[c].nfetch = 1 /\ task[c].res.err = NilErr

(* ----------------------------------------------------------------- C6 *)
\* C6 (as claimed): in asynchronous mode a get call that begins while an entry
\* is cached never returns an error.
C6_NoErrorIfCachedAtStart ==
  \A c \in Callers :
    (~synchronousRefresh /\ Returned(c) /\ task[c].start = "cached") =>
       task[c].res.err = NilErr

\* C6 (amended): in asynchronous mode a get call that finds an entry (valid or
\* expired) when it looks the issuer up returns that entry's key set and no
\* error, whatever the background refreshes do.
C6_NoErrorIfCachedAtLookup ==
  \A c \in Callers :
    (~synchronousRefresh /\ Returned(c) /\ task[c].obs \in {"valid", "expired"}) =>
       /\ task[c].res.err = NilErr
       /\ task[c].res.jwks = task[c].cached.jwks
       /\ task[c].res.jwks # NoJwks

\* C6 witness: a call returned the stale key set of an entry that a failed
\* background refresh has removed in the meantime.
C6_Witness ==
  \E c \in Callers :
    /\ ~synchronousRefresh /\ Returned(c) /\ task[c].obs = "expired"
    /\ task[c].res.err = NilErr /\ ~Has(Issuer)

(* ----------------------------------------------------------------- C7 *)
\* C7: a get call that finds an entry with now < expiresAt takes no permit,
\* spawns nothing and starts no fetch, and returns that entry's key set with no
\* error; none of its steps changes the cache, the entry or the RefreshGate.
C7_ValidHitIsPure ==
  [][\A c \in Callers :
       /\ (LooksUp(c) /\ Has(Issuer) /\ now < cache[Issuer].expiresAt) =>
            /\ task'[c].obs = "valid" /\ task'[c].path = "hit"
            /\ task'[c].cached = cache[Issuer]
            /\ cache' = cache /\ sem' = sem
            /\ \A t \in Tasks \ {c} : task'[t] = task[t]
       /\ (task[c].obs = "valid" /\ task[c].pc = "RUnlock" /\ task'[c] # task[c]) =>
            /\ task[c].cached = cache[Issuer]
            /\ task'[c].pc = "idle"
            /\ task'[c].res = [jwks |-> cache[Issuer].jwks, err |-> NilErr]
            /\ task'[c].nfetch = 0
            /\ cache' = cache /\ sem' = sem
            /\ \A t \in Tasks \ {c} : task'[t] = task[t]]_vars

\* C7 witness: a call returned from a valid entry while the gate is free.
C7_Witness ==
  \E c \in Callers :
    /\ Returned(c) /\ task[c].obs = "valid" /\ task[c].res.jwks # NoJwks
    /\ Has(Issuer) /\ cache[Issuer] = task[c].cached /\ sem = 0

(* ----------------------------------------------------------------- C8 *)
\* C8: a get call that finds no entry performs exactly one fetch, on its own
\* context; when the fetch succeeds the entry stored holds the fetched key set
\* and expires CacheTTL after the store, and the call returns that key set.
C8_ColdMiss ==
  /\ [][\A c \in Callers :
          /\ (task[c].obs = "miss" /\ task[c].pc = "rk_Fetching"
                /\ task'[c].pc = "rk_Store" /\ task'[c].rk.err = NilErr) =>
                  /\ task'[c].rk.jwks = fetched' /\ fetched' = fetched + 1
                  /\ task[c].ctx = CallerCtx(c)
          /\ (task[c].obs = "miss" /\ task[c].pc = "rk_Store"
                /\ task'[c].pc = "rk_Unlock" /\ task[c].rk.err = NilErr) =>
                  /\ Has(Issuer)'
                  /\ cache'[Issuer] =
                       [jwks |-> task[c].rk.jwks, expiresAt |-> now + CacheTTL]]_vars
  /\ [](\A c \in Callers :
          (Returned(c) /\ task[c].obs = "miss") =>
             /\ task[c].nfetch = 1
             /\ task[c].res = task[c].rk
             /\ task[c].ctx = CallerCtx(c))

\* C8 witness: two concurrent cold-miss callers have each fetched and returned
\* their own key set.
C8_Witness ==
  \E c \in Callers, d \in Callers :
    /\ c # d /\ Returned(c) /\ Returned(d)
    /\ task[c].start = "cold" /\ task[d].start = "cold"
    /\ task[c].obs = "miss" /\ task[d].obs = "miss"
    /\ task[c].res.err = NilErr /\ task[d].res.err = NilErr
    /\ task[c].res.jwks # task[d].res.jwks

(* ----------------------------------------------------------------- C9 *)
\* C9: the issuer's entry leaves the cache only in the delete step of a
\* background goroutine whose refresh failed (asynchronous mode); no other step
\* removes it, and in synchronous mode it is never removed.
C9_EvictOnlyOnFailedBackground ==
  [][(Has(Issuer) /\ ~Has(Issuer)') =>
       /\ ~synchronousRefresh
       /\ \E g \in Goroutines :
            /\ task[g].path = "bg" /\ task[g].pc = "ev_LockWait"
            /\ task'[g].pc = "ev_Unlock"
            /\ task[g].rk.err # NilErr /\ task[g].nfetch = 1]_vars

\* C9 witness: a synchronous refresh has failed and the stale entry is still there.
C9_Witness ==
  \E c \in Callers :
    /\ synchronousRefresh /\ Returned(c) /\ task[c].path = "sync"
    /\ task[c].res.err # NilErr
    /\ Has(Issuer) /\ cache[Issuer] = task[c].cached

(* ---------------------------------------------------------------- C10 *)
GateHolders == {t \in Tasks : HoldsGate(t)}
\* t has come back from refreshKey (and, in the goroutine, from the eviction).
RefreshDone(t) ==
  /\ task[t].nfetch = 1
  /\ task[t].pc = (IF t \in Goroutines THEN "bg_Release" ELSE "Release")

\* C10: a permit of the RefreshGate is taken by exactly one task, which releases
\* it exactly once, after its refresh has completed (with or without error); a
\* permit taken is eventually released, and no task releases a permit it does
\* not hold.
C10_GateHeldForRefresh ==
  /\ [](sem = Cardinality(GateHolders) /\ sem \in 0..SemSize)
  /\ [][/\ sem' < sem =>
             /\ sem' = sem - 1
             /\ \E t \in GateHolders : RefreshDone(t) /\ GateHolders' = GateHolders \ {t}
        /\ sem' > sem =>
             /\ sem' = sem + 1
             /\ Expired
             /\ \E t \in Tasks \ GateHolders : GateHolders' = GateHolders \cup {t}]_vars
  /\ (sem > 0) ~> (sem = 0)

\* C10 witness: a background refresh has failed, the entry is evicted, and the
\* goroutine is about to release the permit it still holds.
C10_Witness ==
  \E g \in Goroutines :
    /\ task[g].pc = "bg_Release" /\ task[g].rk.err # NilErr
    /\ sem = 1 /\ ~Has(Issuer)

(* ---------------------------------------------------------------- C11 *)
\* C11: when every fetch returns and the scheduler and the mutex are fair, every
\* get call that has entered KeyFunc returns: no interleaving of callers and
\* background refreshes leaves a call waiting forever at the read/write lock.
C11_EveryCallReturns ==
  \A c \in Callers : (task[c].pc # "idle") ~> (task[c].pc = "idle")

\* C11 witness: a call waits at c.mu.RLock() while a background refresh holds the
\* write lock for its fetch and another call has already returned the stale set.
C11_Witness ==
  \E c \in Callers, d \in Callers, g \in Goroutines :
    /\ task[c].pc = "RLock" /\ ~CanRLock
    /\ task[g].pc = "rk_Fetching" /\ mu.w = g
    /\ Returned(d) /\ task[d].path = "async"

(* ---------------------------------------------------------------- C12 *)
\* C12: a fetch ends with the cancellation error exactly when it runs in a
\* caller (on the miss path or the synchronous refresh path, on that caller's
\* context) whose own context has been cancelled; the fetch of a background
\* refresh runs on no caller's context and is never aborted by a cancellation,
\* whichever callers' contexts are cancelled, that of the caller whose call
\* spawned the refresh included.
C12_CancelAbortsOnlyOwnFetch ==
  [][\A t \in Tasks :
       (task[t].pc = "rk_Fetching" /\ task'[t].pc = "rk_Store") =>
          /\ task'[t].rk.err = CtxErr =>
                /\ t \in Callers /\ task'[t].sawCancel
                /\ task[t].path \in {"miss", "sync"}
                /\ task[t].ctx = CallerCtx(t)
          /\ (t \in Callers /\ task'[t].sawCancel) => task'[t].rk.err = CtxErr
          /\ t \in Goroutines =>
                /\ task'[t].rk.err # CtxErr
                /\ task[t].ctx \notin CallerCtxs]_vars

\* C12 witness: the fetch of a background refresh has returned a key set
\* although the caller that triggered it had cancelled its context, and another
\* call has returned the cancellation error of its own aborted fetch.
C12_Witness ==
  \E g \in Goroutines, c \in Callers, d \in Callers :
    /\ task[g].pc = "rk_Store" /\ task[g].rk.err = NilErr
    /\ task[g].sawCancel /\ task[g].ctx = RefreshCtx(c)
    /\ Returned(c) /\ task[c].path = "async"
    /\ Returned(d) /\ task[d].res.err = CtxErr

(* ---------------------------------------------------------------- C13 *)
\* C13: what a get call has returned is either a key set with a nil error or an
\* error with no key set, never both and never neither; and a returned key set is
\* one that a successful fetch has produced.
C13_KeySetXorError ==
  \A c \in Callers :
    Returned(c) =>
      \/ task[c].res.err = NilErr /\ task[c].res.jwks \in 1..fetched
      \/ task[c].res.err # NilErr /\ task[c].res.jwks = NoJwks

\* C13 witness: one call has returned a key set from the cache and another the
\* error of its failed fetch.
C13_Witness ==
  \E c \in Callers, d \in Callers :
    /\ Returned(c) /\ task[c].path \in {"hit", "async"}
    /\ task[c].res.err = NilErr /\ task[c].res.jwks \in 1..fetched
    /\ Returned(d) /\ task[d].path \in {"miss", "sync"}
    /\ task[d].res.err = FetchErr /\ task[d].res.jwks = NoJwks

(* ---------------------------------------------------------------- C14 *)
\* C14: NewCachingProvider turns a zero cacheTTL into 60 seconds and keeps any
\* other value; without WithSynchronousRefresh the provider refreshes in the
\* background; and the provider comes out of the constructor with an empty cache
\* and all permits of the gate free. Every entry stored later carries the TTL
\* so chosen, and a call that takes the gate of a provider built without the
\* option returns the stale key set.
C14_ConstructorDefaults ==
  /\ [](ctor.phase = "built" =>
          /\ CacheTTL = (IF ctor.cacheTTL = 0 THEN 60 ELSE ctor.cacheTTL)
          /\ ctor.opt = "none" => ~synchronousRefresh
          /\ synchronousRefresh <=> ctor.opt = "true"
          /\ Has(Issuer) => cache[Issuer].expiresAt \in
                              {n + (IF ctor.cacheTTL = 0 THEN 60 ELSE ctor.cacheTTL) :
                                 n \in 0..now})
  /\ [][(ctor.phase = "new" /\ ctor'.phase = "built") =>
          /\ cache' = EmptyCache /\ sem' = 0
          /\ TryAcquire']_vars
  /\ [][\A c \in Callers :
          (ctor.opt = "none" /\ task[c].pc = "Lookup" /\ task'[c].pc = "RUnlock"
             /\ sem' = sem + 1) =>
             task'[c].path = "async"]_vars

\* C14 witness: a provider built with cacheTTL 0 and no option holds an entry
\* that expires a minute after it was stored.
C14_Witness ==
  /\ ctor = [phase |-> "built", cacheTTL |-> 0, opt |-> "none"]
  /\ Has(Issuer) /\ cache[Issuer].expiresAt >= 60
  /\ \E c \in Callers : Returned(c) /\ task[c].path = "hit"

(* ---------------------------------------------------------------- C15 *)
\* C15: a refreshKey whose fetch fails returns the error of the fetch with no key
\* set and leaves the cache as it was when it was granted the write lock; while a
\* refreshKey holds the write lock the cache changes only by its own store; and
\* an entry appears or changes only in the step of a successful fetch, which
\* writes the fetched key set and the expiry now + CacheTTL together.
C15_FailedRefreshKeepsCache ==
  /\ [][\A t \in Tasks :
          (task[t].pc = "rk_Fetching" /\ task'[t].pc = "rk_Store"
             /\ task'[t].rk.err # NilErr) =>
             /\ task'[t].rk.jwks = NoJwks
             /\ task'[t].rk.err \in {FetchErr, CtxErr}]_vars
  /\ [][\A t \in Tasks :
          (task[t].pc = "rk_Store" /\ task'[t].pc = "rk_Unlock"
             /\ task[t].rk.err # NilErr) =>
             /\ cache' = cache
             /\ task'[t].rk = task[t].rk]_vars
  /\ [][\A t \in Tasks :
          (task[t].pc \in {"rk_Fetching", "rk_Store", "rk_Unlock"}
             /\ cache' # cache) =>
             /\ task[t].pc = "rk_Store" /\ task'[t].pc = "rk_Unlock"
             /\ task[t].rk.err = NilErr]_vars
  /\ [][\A i \in DOMAIN cache' :
          (i \notin DOMAIN cache \/ cache'[i] # cache[i]) =>
             \E t \in Tasks :
               /\ task[t].pc = "rk_Store" /\ task'[t].pc = "rk_Unlock"
               /\ task[t].rk.err = NilErr
               /\ task[t].rk.jwks # NoJwks
               /\ cache'[i] = [jwks |-> task[t].rk.jwks,
                               expiresAt |-> now + CacheTTL]]_vars

\* C15 witness: the fetch of a refreshKey has failed, the write lock is still
\* held, and the expired entry the refresh was for is in the cache.
C15_Witness ==
  \E t \in Tasks :
    /\ task[t].pc = "rk_Unlock" /\ mu.w = t
    /\ task[t].rk = [jwks |-> NoJwks, err |-> FetchErr]
    /\ Expired /\ cache[Issuer].jwks = fetched

(* ---------------------------------------------------------------- C16 *)
\* C16 (as claimed): a lookup that finds an entry with now < expiresAt takes no
\* permit and returns the entry; a lookup that finds an entry with
\* now >= expiresAt, the instant now = expiresAt included, while the gate is free
\* takes the permit and starts a refresh.
C16_ValidExactlyBeforeExpiry ==
  [][\A c \in Callers :
       (task[c].pc = "Lookup" /\ task'[c].pc = "RUnlock" /\ Has(Issuer)) =>
          /\ now < cache[Issuer].expiresAt =>
                sem' = sem /\ task'[c].path = "hit"
          /\ (now >= cache[Issuer].expiresAt /\ sem = 0) =>
                sem' = 1 /\ task'[c].path \in {"async", "sync"}]_vars

(* ---------------------------------------------------------------- C17 *)
\* C17: the TTL is positive and fixed; a successful refresh stores the expiry
\* now + CacheTTL, which is strictly later than the time the previous entry of
\* the issuer was stored at and not earlier than the expiry that entry carried,
\* whether that entry is still in the cache or has been evicted since.
C17_ExpiryMovesForward ==
  /\ [](ctor.phase # "new" => CacheTTL > 0)
  /\ [](Has(Issuer) => cache[Issuer].expiresAt = lastStore.expiresAt)
  /\ [][CacheTTL' = CacheTTL /\ now' >= now]_vars
  /\ [][\A t \in Tasks :
          (task[t].pc = "rk_Store" /\ task'[t].pc = "rk_Unlock"
             /\ task[t].rk.err = NilErr) =>
             /\ Has(Issuer)'
             /\ cache'[Issuer].expiresAt = now + CacheTTL
             /\ lastStore # NeverStored =>
                   /\ cache'[Issuer].expiresAt > lastStore.at
                   /\ cache'[Issuer].expiresAt >= lastStore.expiresAt]_vars

\* C17 witness: a background refresh has replaced, at time 2, the expired entry
\* of the first fetch.
C17_Witness ==
  \E g \in Goroutines :
    /\ task[g].pc = "rk_Unlock" /\ task[g].rk.jwks = 2 /\ fetched = 2
    /\ lastStore.at = 2 /\ cache[Issuer].expiresAt = 2 + CacheTTL

(* ---------------------------------------------------------------- C18 *)
\* C18 (as claimed): when the background goroutine deletes the issuer's entry
\* after its refresh has failed, the entry it deletes is expired and is the
\* entry the refresh was triggered for.
C18_EvictsOnlyTheStaleEntry ==
  [][\A g \in Goroutines :
       (task[g].pc = "ev_LockWait" /\ task'[g].pc = "ev_Unlock" /\ Has(Issuer)) =>
          /\ After(now, cache[Issuer].expiresAt)
          /\ cache[Issuer] = task[g].cached]_vars

(* ---------------------------------------------------------------- C19 *)
\* C19: outside the write-locked section between a fetch's return and its store,
\* and so whenever a reader looks the entry up, the key set in the cache is the
\* one of the latest successful fetch; every store installs the key set of the
\* latest successful fetch, which is newer than the one it overwrites.
C19_CacheHoldsLatestFetch ==
  /\ []((Has(Issuer) /\ \A t \in Tasks : task[t].pc # "rk_Store") =>
           cache[Issuer].jwks = fetched)
  /\ [](\A c \in Callers :
          (task[c].pc = "Lookup" /\ Has(Issuer)) => cache[Issuer].jwks = fetched)
  /\ [][\A t \in Tasks :
          (task[t].pc = "rk_Store" /\ task'[t].pc = "rk_Unlock"
             /\ task[t].rk.err = NilErr) =>
             /\ task[t].rk.jwks = fetched
             /\ cache'[Issuer].jwks = fetched
             /\ Has(Issuer) => cache[Issuer].jwks < task[t].rk.jwks]_vars

\* C19 witness: the second key set fetched has replaced the first and a call has
\* returned it from the cache, while a queued refresh waits for the write lock.
C19_Witness ==
  \E c \in Callers, t \in Tasks :
    /\ Has(Issuer) /\ cache[Issuer].jwks = 2 /\ fetched = 2
    /\ Returned(c) /\ task[c].path = "hit" /\ task[c].res.jwks = 2
    /\ task[t].pc = "rk_Lock"

(* ---------------------------------------------------------------- C20 *)
\* C20: the tasks holding the RefreshGate (background refreshes and synchronous
\* refreshers) are as many as the permits taken and at most one, at most one
\* background refresh goroutine runs, and every holder took the gate for an
\* entry that its lookup found expired.
C20_AtMostOneGateHolder ==
  /\ Cardinality(GateHolders) = sem
  /\ sem <= SemSize /\ SemSize = 1
  /\ Cardinality({g \in Goroutines : Running(g)}) <= 1
  /\ \A g \in Goroutines : Running(g) => task[g].path = "bg"
  /\ \A t \in GateHolders :
       /\ task[t].cached.jwks # NoJwks
       /\ After(now, task[t].cached.expiresAt)
       /\ t \in Callers => task[t].obs = "expired"

\* C20 witness: a background refresh holds the only permit and a call that found
\* the entry expired and the gate taken has returned the stale key set.
C20_Witness ==
  \E g \in Goroutines, c \in Callers :
    /\ HoldsGate(g) /\ task[g].pc = "rk_Fetching" /\ sem = 1
    /\ Returned(c) /\ task[c].path = "hit" /\ task[c].obs = "expired"

====
